---- MODULE Spec2Model ----
(***************************************************************************)
(* A model of the free web-search retriever of gpt-researcher:             *)
(*   free_web_retriever.py   FreeWebSearchRetriever (rate limiter, three   *)
(*                           engine adapters, fallback loop), search_web   *)
(*   gpt_researcher/retrievers/custom/custom.py   CustomRetriever (shim    *)
(*                           and pipeline-shape normalisation, in free     *)
(*                           search mode and in endpoint mode)             *)
(* Time is a discrete non-decreasing clock.  Each caller (thread) runs the *)
(* statements of search() one step at a time.                              *)
(***************************************************************************)
EXTENDS Integers, Sequences, FiniteSets, TLC

\* ---------------------------------------------------------------- bounds
NumThreads == 2      \* callers that may be inside search() at once
NumInst == 2         \* FreeWebSearchRetriever objects the process constructs
MaxCalls == 2        \* search calls made in one run
MaxTime == 6         \* the clock stops ticking here
ThreadTicks == 2     \* clock ticks of a run with several threads
Epoch == 3           \* time.time() when the process starts (far above min_delay)
MaxNodes == 2        \* result nodes on one engine page
MaxN == 2            \* largest max_results a caller passes

\* ------------------------------------------------------- program constants
min_delay == 2       \* self.min_delay

Threads == 1..NumThreads
Inst == 1..NumInst

\* ------------------------------------------------------------ engine pages
NoAttr == "<no href>"      \* the title link carries no href attribute
NoElem == "<no element>"   \* the result node has no snippet element

\* What one result node of an engine page holds: whether the title link
\* (DuckDuckGo a.result__a, Bing h2 > a, StartPage a.w-gl__result-title) is
\* there, its text, its href attribute and the snippet element's text.
Nodes ==
    { [link |-> TRUE,  text |-> " T ", href |-> "U",    snip |-> "S"   ],
      [link |-> TRUE,  text |-> "A",   href |-> "V",    snip |-> " B " ],
      [link |-> FALSE, text |-> "",    href |-> NoAttr, snip |-> NoElem],
      [link |-> TRUE,  text |-> "T",   href |-> NoAttr, snip |-> "S"   ],
      [link |-> TRUE,  text |-> "T",   href |-> "U",    snip |-> NoElem],
      [link |-> TRUE,  text |-> " ",   href |-> "U",    snip |-> "S"   ] }

RECURSIVE SeqsUpTo(_, _)
SeqsUpTo(S, n) ==
    IF n = 0 THEN { <<>> }
    ELSE LET shorter == SeqsUpTo(S, n - 1)
         IN  shorter \cup { Append(s, x) : s \in { q \in shorter : Len(q) = n - 1 }, x \in S }

\* The pages an engine may answer with: the result nodes in document order.
Pages == SeqsUpTo(Nodes, MaxNodes)

\* str.strip() on the texts the pages hold.
Strip(s) ==
    CASE s = " T " -> "T"
      [] s = " B " -> "B"
      [] s = " "   -> ""
      [] OTHER     -> s

Min(a, b) == IF a < b THEN a ELSE b
Max(a, b) == IF a > b THEN a ELSE b

\* Python's s[:n]: the first n elements, and for a negative n all but the
\* last -n.
PySliceAll(s, n) == s    \* faulty variant: no truncation
PySlice(s, n) ==
    IF n >= 0 THEN SubSeq(s, 1, Min(n, Len(s)))
    ELSE SubSeq(s, 1, Max(Len(s) + n, 0))

\* One node's raw result: title, url and snippet, a missing attribute or
\* element giving the empty string (and a faulty variant without the
\* default of get('href', '')).
RawResultNoDefault(node) ==
    [title   |-> Strip(node.text),
     url     |-> node.href,
     snippet |-> IF node.snip = NoElem THEN "" ELSE Strip(node.snip)]
RawResult(node) ==
    [title   |-> Strip(node.text),
     url     |-> IF node.href = NoAttr THEN "" ELSE node.href,
     snippet |-> IF node.snip = NoElem THEN "" ELSE Strip(node.snip)]

\* The loop over the selected nodes: a node with a title link appends its
\* result, a node without is passed over (and a faulty variant that puts
\* each new result first).
RECURSIVE CollectReversed(_)
CollectReversed(nodes) ==
    IF nodes = <<>> THEN <<>>
    ELSE IF Head(nodes).link
         THEN CollectReversed(Tail(nodes)) \o <<RawResult(Head(nodes))>>
         ELSE CollectReversed(Tail(nodes))

RECURSIVE Collect(_)
Collect(nodes) ==
    IF nodes = <<>> THEN <<>>
    ELSE IF Head(nodes).link
         THEN <<RawResult(Head(nodes))>> \o Collect(Tail(nodes))
         ELSE Collect(Tail(nodes))

\* The parse loop of an adapter: the first max_results result nodes, those
\* with a title link kept (and a faulty variant that takes the first
\* max_results of the nodes that have a title link).
ParsePageFilterFirst(page, max_results) == PySlice(Collect(page), max_results)
ParsePage(page, max_results) == Collect(PySlice(page, max_results))

_search_duckduckgo(page, max_results) == ParsePage(page, max_results)
_search_bing(page, max_results) == ParsePage(page, max_results)
_search_startpage(page, max_results) == ParsePage(page, max_results)

\* Lines 50-54: the methods in priority order (and a faulty variant with
\* the first two swapped).
methodsSwapped == <<"_search_bing", "_search_duckduckgo", "_search_startpage">>
methods == <<"_search_duckduckgo", "_search_bing", "_search_startpage">>

Adapter(name, page, max_results) ==
    CASE name = "_search_duckduckgo" -> _search_duckduckgo(page, max_results)
      [] name = "_search_bing"       -> _search_bing(page, max_results)
      [] name = "_search_startpage"  -> _search_startpage(page, max_results)

\* ------------------------------------------------------------------ state
VARIABLES
    now,                \* what time.time() returns
    last_request_time,  \* self.last_request_time of each retriever object
    owner,              \* what constructed each retriever object ("" : not yet)
    frame,              \* each caller's position in search() and its locals
                        \* (ret: the value returned to it, rtype: its type)
    ncalls,             \* search calls begun so far
    trace,              \* history, per caller: adapters invoked, their outcomes,
                        \* the last page parsed, timestamps seen
    last_req,           \* history, per object: when its last request was issued
    proc_stamp,         \* history: the timestamp the process recorded last
    query_domains,      \* self.query_domains of each CustomRetriever
    available,          \* self.available of each CustomRetriever
    environ,            \* the process's surroundings: whether free_web_retriever
                        \* can be imported, what RETRIEVER_ENDPOINT holds
    search_count,       \* self.search_count of each FreeSearchResearcher
    total_sources       \* self.total_sources of each FreeSearchResearcher

counters == <<search_count, total_sources>>

shimvars == <<query_domains, available, environ, counters>>

vars == <<now, last_request_time, owner, frame, ncalls, trace, last_req, proc_stamp,
          query_domains, available, environ, search_count, total_sources>>

None == 0 - 1

\* The query_domains argument of CustomRetriever: None (the default), or a
\* list of domains.
NoDomains == <<>>
SomeDomains == <<"example.com">>

IdleFrame ==
    [pc |-> "idle", entry |-> "", self |-> 0, max_results |-> 0,
     current_time |-> 0, wake |-> 0, k |-> 0, results |-> <<>>,
     returned |-> <<>>, ret |-> <<>>, rtype |-> "list"]

IdleTrace ==
    [invoked |-> <<>>, attempts |-> <<>>, nodes |-> 0, page |-> <<>>,
     earlier |-> None, prev |-> None, stamp |-> None]

Init ==
    /\ now = Epoch
    /\ last_request_time = [i \in Inst |-> 0]
    /\ owner = [i \in Inst |-> ""]
    /\ frame = [t \in Threads |-> IdleFrame]
    /\ ncalls = 0
    /\ trace = [t \in Threads |-> IdleTrace]
    /\ last_req = [i \in Inst |-> None]
    /\ proc_stamp = None
    /\ query_domains = [i \in Inst |-> NoDomains]
    /\ available = [i \in Inst |-> FALSE]
    /\ environ = [importable |-> TRUE, endpoint |-> ""]
    /\ search_count = [i \in Inst |-> 0]
    /\ total_sources = [i \in Inst |-> 0]

\* The clock advances; a blocked caller (asleep, or waiting for an engine)
\* resumes at any later time.
Tick ==
    /\ now < MaxTime
    /\ now' = now + 1
    /\ UNCHANGED <<last_request_time, owner, shimvars, frame, ncalls, trace, last_req, proc_stamp>>

\* FreeWebSearchRetriever.__init__, run by the named owner: the script's
\* own FreeWebSearchRetriever(), or CustomRetriever.__init__.
Construct(i, who) ==
    /\ owner[i] = ""
    /\ \A j \in Inst : j < i => owner[j] # ""
    /\ owner' = [owner EXCEPT ![i] = who]
    /\ last_request_time' = [last_request_time EXCEPT ![i] = 0]
    /\ UNCHANGED <<now, frame, ncalls, trace, last_req, proc_stamp>>

\* CustomRetriever.__init__(query, query_domains).  Lines 14-15 store the
\* arguments.  When free_web_retriever can be imported, line 33 builds the
\* shim's own FreeWebSearchRetriever and line 34 sets available; when it
\* cannot (ImportError), line 37 clears available and the shim keeps the
\* endpoint that RETRIEVER_ENDPOINT names (lines 42-45).
CustomRetriever(i, domains, importable) ==
    /\ importable = environ.importable
    /\ importable \/ environ.endpoint # ""
    /\ query_domains' = [query_domains EXCEPT ![i] = domains]
    /\ available' = [available EXCEPT ![i] = importable]
    /\ UNCHANGED <<environ, counters>>
    /\ IF importable
       THEN Construct(i, "CustomRetriever")
       ELSE /\ owner[i] = ""
            /\ \A j \in Inst : j < i => owner[j] # ""
            /\ owner' = [owner EXCEPT ![i] = "CustomRetriever"]
            /\ UNCHANGED <<now, last_request_time, frame, ncalls, trace, last_req, proc_stamp>>

\* CustomRetriever.__init__ where free_web_retriever cannot be imported and
\* RETRIEVER_ENDPOINT is not set (or is empty): lines 14-15 and 37 assign,
\* line 44 raises ValueError and the script gets no object.
CustomRetrieverRaises(i, domains) ==
    /\ ~environ.importable
    /\ environ.endpoint = ""
    /\ owner[i] = ""
    /\ \A j \in Inst : j < i => owner[j] # ""
    /\ owner' = [owner EXCEPT ![i] = "ValueError"]
    /\ query_domains' = [query_domains EXCEPT ![i] = domains]
    /\ available' = [available EXCEPT ![i] = FALSE]
    /\ UNCHANGED <<now, last_request_time, frame, ncalls, trace, last_req, proc_stamp,
                   environ, counters>>

\* What the surroundings may be: the module on the import path or not (lines
\* 20-32), RETRIEVER_ENDPOINT unset or set (line 42).
Environments == [importable : BOOLEAN, endpoint : { "", "http://endpoint" }]

\* The surroundings change between two steps of the script.  A module that
\* was imported once stays importable (it is kept in sys.modules).
SetEnviron(e) ==
    /\ e \in Environments
    /\ e # environ
    /\ (environ.importable /\ ~e.importable) =>
           \A i \in Inst : \/ owner[i] \in { "", "ValueError" }
                            \/ (owner[i] = "CustomRetriever" /\ ~available[i])
    /\ environ' = e
    /\ UNCHANGED <<now, last_request_time, owner, frame, ncalls, trace, last_req,
                   proc_stamp, query_domains, available, counters>>

\* Entering FreeWebSearchRetriever.search(query, max_results) on object i.
Enter(t, i, entry, n) ==
    /\ frame[t].pc = "idle"
    /\ ncalls' = ncalls + 1
    /\ frame' = [frame EXCEPT ![t] =
            [IdleFrame EXCEPT !.pc = "read_clock", !.entry = entry, !.self = i,
                              !.max_results = n]]
    /\ trace' = [trace EXCEPT ![t] =
            [IdleTrace EXCEPT !.earlier = proc_stamp,
                              !.prev = IF last_request_time[i] = 0 THEN None
                                       ELSE last_request_time[i]]]
    /\ UNCHANGED <<now, last_req, proc_stamp>>

\* retriever.search(query, n) on an object the script built itself.
CallSearch(t, i, n) ==
    /\ owner[i] = "FreeWebSearchRetriever"
    /\ Enter(t, i, "search", n)
    /\ UNCHANGED <<last_request_time, owner, shimvars>>

\* search_web(query, n): a new object for this one call.
search_web(t, i, n) ==
    /\ owner[i] = ""
    /\ \A j \in Inst : j < i => owner[j] # ""
    /\ owner' = [owner EXCEPT ![i] = "search_web"]
    /\ last_request_time' = [last_request_time EXCEPT ![i] = 0]
    /\ Enter(t, i, "search_web", n)
    /\ UNCHANGED shimvars

\* CustomRetriever.search(n) with available = True: line 79 calls
\* self.free_retriever.search(self.query, max_results=n) (and a faulty
\* variant that looks at the surroundings again instead of self.available).
CustomSearchByEnviron(t, i, n) ==
    /\ owner[i] = "CustomRetriever"
    /\ environ.importable
    /\ Enter(t, i, "CustomRetriever", n)
    /\ UNCHANGED <<last_request_time, owner, shimvars>>

CustomSearch(t, i, n) ==
    /\ owner[i] = "CustomRetriever"
    /\ available[i]
    /\ Enter(t, i, "CustomRetriever", n)
    /\ UNCHANGED <<last_request_time, owner, shimvars>>

\* ------------------------------------------------------------ rate limiter
\* Line 44: current_time - self.last_request_time < self.min_delay.
NeedsDelay(current_time, last) == current_time - last < min_delay

\* Line 45: the argument of time.sleep (and a faulty variant, one short).
SleepArgShort(current_time, last) == min_delay - (current_time - last) - 1
SleepArg(current_time, last) == min_delay - (current_time - last)

\* Line 43: current_time = time.time().
ReadClock(t) ==
    /\ frame[t].pc = "read_clock"
    /\ frame' = [frame EXCEPT ![t].current_time = now, ![t].pc = "check"]
    /\ UNCHANGED <<now, last_request_time, owner, shimvars, ncalls, trace, last_req, proc_stamp>>

\* Line 44: the comparison, reading self.last_request_time (and a faulty
\* variant that waits in a loop until the difference it computed has grown).
CheckSpin(t) ==
    /\ frame[t].pc = "check"
    /\ frame' = [frame EXCEPT ![t].pc =
            IF NeedsDelay(frame[t].current_time, last_request_time[frame[t].self])
            THEN "check" ELSE "stamp"]
    /\ UNCHANGED <<now, last_request_time, owner, shimvars, ncalls, trace, last_req, proc_stamp>>

Check(t) ==
    /\ frame[t].pc = "check"
    /\ frame' = [frame EXCEPT ![t].pc =
            IF NeedsDelay(frame[t].current_time, last_request_time[frame[t].self])
            THEN "sleep" ELSE "stamp"]
    /\ UNCHANGED <<now, last_request_time, owner, shimvars, ncalls, trace, last_req, proc_stamp>>

\* Line 45: time.sleep(d) begins, d computed from a second read of
\* self.last_request_time; the caller is suspended for at least d.
Sleep(t) ==
    /\ frame[t].pc = "sleep"
    /\ LET d == SleepArg(frame[t].current_time, last_request_time[frame[t].self])
       IN  frame' = [frame EXCEPT ![t].wake = now + d, ![t].pc = "sleeping"]
    /\ UNCHANGED <<now, last_request_time, owner, shimvars, ncalls, trace, last_req, proc_stamp>>

\* time.sleep returns, no earlier than asked: the clock has reached the
\* time of waking, or the sleep lasts until it has.
Wake(t) ==
    /\ frame[t].pc = "sleeping"
    /\ now' = Max(now, frame[t].wake)
    /\ frame' = [frame EXCEPT ![t].pc = "stamp"]
    /\ UNCHANGED <<last_request_time, owner, shimvars, ncalls, trace, last_req, proc_stamp>>

\* Line 47: self.last_request_time = time.time(); the loop starts at the
\* first method (and a faulty variant in which an object that was searched
\* before answers from memory, without a request).
StampFromMemory(t) ==
    /\ frame[t].pc = "stamp"
    /\ last_request_time' = [last_request_time EXCEPT ![frame[t].self] = now]
    /\ proc_stamp' = now
    /\ frame' = [frame EXCEPT ![t] =
            IF trace[t].prev # None
            THEN [frame[t] EXCEPT !.pc = "done"]
            ELSE [frame[t] EXCEPT !.pc = "invoke", !.k = 1]]
    /\ trace' = [trace EXCEPT ![t].stamp = now]
    /\ UNCHANGED <<now, owner, shimvars, ncalls, last_req>>

Stamp(t) ==
    /\ frame[t].pc = "stamp"
    /\ last_request_time' = [last_request_time EXCEPT ![frame[t].self] = now]
    /\ proc_stamp' = now
    /\ frame' = [frame EXCEPT ![t].pc = "invoke", ![t].k = 1]
    /\ trace' = [trace EXCEPT ![t].stamp = now]
    /\ UNCHANGED <<now, owner, shimvars, ncalls, last_req>>

\* ------------------------------------------------------------ fallback loop
\* search() returns v: to the script, to CustomRetriever.search line 79, to
\* CustomFreeRetriever.search line 29 or to conduct_research line 47.
Returned(f, v) ==
    IF f.entry = "CustomRetriever"
    THEN [f EXCEPT !.pc = "format", !.returned = v]
    ELSE IF f.entry = "CustomFreeRetriever"
         THEN [f EXCEPT !.pc = "free_format", !.returned = v]
         ELSE IF f.entry = "conduct_research"
              THEN [f EXCEPT !.pc = "report", !.returned = v]
              ELSE [f EXCEPT !.pc = "done", !.returned = v, !.ret = v]

\* Line 56: the next method of the list, and line 66 after the last (and a
\* faulty variant that leaves the loop instead).
ContinueBreak(f) == Returned(f, <<>>)
Continue(f) ==
    IF f.k < Len(methods)
    THEN [f EXCEPT !.k = f.k + 1, !.pc = "invoke"]
    ELSE Returned(f, <<>>)

\* Lines 62-64: except Exception: log and continue (and faulty variants:
\* one that lets the exception out of search, one that tries the same
\* method again).
OnExceptionReraise(f) == [f EXCEPT !.pc = "raised"]
OnExceptionRetry(f) == [f EXCEPT !.pc = "invoke"]
OnException(f) == Continue(f)

\* Line 59: if results (and faulty variants: one that never returns early,
\* one that tests "is not None" and so takes the empty list for a success).
IsSuccessNever(results) == FALSE
IsSuccessNotNone(results) == TRUE
IsSuccess(results) == results # <<>>

\* Lines 58-61: results = method(query, max_results); a non-empty list is
\* returned at once.
OnResults(f, results) ==
    IF IsSuccess(results)
    THEN Returned([f EXCEPT !.results = results], results)
    ELSE Continue([f EXCEPT !.results = results])

\* Line 58 calls the method, which issues its HTTP GET (lines 72, 99, 127)
\* (and a faulty variant in which the method records the time of its request).
InvokeStamping(t) ==
    /\ frame[t].pc = "invoke"
    /\ frame' = [frame EXCEPT ![t].pc = "inflight"]
    /\ trace' = [trace EXCEPT ![t].invoked = Append(@, methods[frame[t].k])]
    /\ last_req' = [last_req EXCEPT ![frame[t].self] = now]
    /\ last_request_time' = [last_request_time EXCEPT ![frame[t].self] = now]
    /\ UNCHANGED <<now, owner, shimvars, ncalls, proc_stamp>>

Invoke(t) ==
    /\ frame[t].pc = "invoke"
    /\ frame' = [frame EXCEPT ![t].pc = "inflight"]
    /\ trace' = [trace EXCEPT ![t].invoked = Append(@, methods[frame[t].k])]
    /\ last_req' = [last_req EXCEPT ![frame[t].self] = now]
    /\ UNCHANGED <<now, last_request_time, owner, shimvars, ncalls, proc_stamp>>

\* An attempt that got no HTTP response has no status.
NoStatus == 0

\* The HTTP statuses a response may carry (requests follows redirects, so
\* a 3xx status is one of a response without a Location header).
Statuses == { 200, 304, 404, 503 }

\* Lines 73, 100, 128: response.raise_for_status() raises HTTPError for a
\* status from 400 to 599 and returns for any other (and a faulty variant
\* that raises for none).
raise_for_statusNever(status) == FALSE
raise_for_status(status) == 400 <= status /\ status < 600

\* requests.get raises (ConnectionError, Timeout): the method has no
\* handler, so the exception reaches line 62.
Fail(t) ==
    /\ frame[t].pc = "inflight"
    /\ frame' = [frame EXCEPT ![t] = OnException(frame[t])]
    /\ trace' = [trace EXCEPT ![t].attempts =
            Append(@, [raised |-> TRUE, list |-> <<>>, status |-> NoStatus])]
    /\ UNCHANGED <<now, last_request_time, owner, shimvars, ncalls, last_req, proc_stamp>>

\* The engine answers with a status and a page.  When raise_for_status
\* raises, the method has no handler and the exception reaches line 62;
\* otherwise the method parses the page and returns the list.
Answer(t, status, page) ==
    /\ frame[t].pc = "inflight"
    /\ IF raise_for_status(status)
       THEN /\ frame' = [frame EXCEPT ![t] = OnException(frame[t])]
            /\ trace' = [trace EXCEPT ![t].attempts =
                    Append(@, [raised |-> TRUE, list |-> <<>>, status |-> status])]
       ELSE LET results == Adapter(methods[frame[t].k], page, frame[t].max_results)
            IN  /\ frame' = [frame EXCEPT ![t] = OnResults(frame[t], results)]
                /\ trace' = [trace EXCEPT
                        ![t].attempts = Append(@, [raised |-> FALSE, list |-> results,
                                                   status |-> status]),
                        ![t].nodes = Len(page), ![t].page = page]
    /\ UNCHANGED <<now, last_request_time, owner, shimvars, ncalls, last_req, proc_stamp>>

\* The engine answers 200 with a page and the method returns its parse.
Respond(t, page) == Answer(t, 200, page)

\* ------------------------------------------------- CustomRetriever.search
\* Line 87: result.get('title') and result.get('url') and result.get('snippet')
\* (and faulty variants: one that takes any non-empty field for enough,
\* one that forgets the snippet).
KeepAnyField(result) == result.title # "" \/ result.url # "" \/ result.snippet # ""
KeepNoSnippetTest(result) == result.title # "" /\ result.url # ""
Keep(result) == result.title # "" /\ result.url # "" /\ result.snippet # ""

\* Lines 88-91: the pipeline-shape record (and a faulty variant with one
\* newline).
FormattedEntryOneNewline(result) ==
    [href |-> result.url, body |-> result.title \o "\n" \o result.snippet]
FormattedEntry(result) ==
    [href |-> result.url, body |-> result.title \o "\n\n" \o result.snippet]

\* Lines 85-92: the loop over results (and a faulty variant that puts each
\* new entry first).
RECURSIVE FormattedResultsReversed(_)
FormattedResultsReversed(results) ==
    IF results = <<>> THEN <<>>
    ELSE IF Keep(Head(results))
         THEN FormattedResultsReversed(Tail(results)) \o <<FormattedEntry(Head(results))>>
         ELSE FormattedResultsReversed(Tail(results))

RECURSIVE FormattedResults(_)
FormattedResults(results) ==
    IF results = <<>> THEN <<>>
    ELSE IF Keep(Head(results))
         THEN <<FormattedEntry(Head(results))>> \o FormattedResults(Tail(results))
         ELSE FormattedResults(Tail(results))

\* Lines 81-99: if results: return the formatted list, else return [] (and
\* a faulty variant that keeps only results of the domains asked for, none
\* of the engines' results being of these).
FormatWithinDomains(t) ==
    /\ frame[t].pc = "format"
    /\ frame' = [frame EXCEPT ![t].pc = "done",
            ![t].ret = IF frame[t].returned # <<>> /\ query_domains[frame[t].self] = NoDomains
                       THEN FormattedResults(frame[t].returned) ELSE <<>>]
    /\ UNCHANGED <<now, last_request_time, owner, shimvars, ncalls, trace, last_req, proc_stamp>>

Format(t) ==
    /\ frame[t].pc = "format"
    /\ frame' = [frame EXCEPT ![t].pc = "done",
            ![t].ret = IF frame[t].returned # <<>>
                       THEN FormattedResults(frame[t].returned) ELSE <<>>]
    /\ UNCHANGED <<now, last_request_time, owner, shimvars, ncalls, trace, last_req, proc_stamp>>

\* CustomRetriever.search(n) with available = False: line 108 issues the
\* GET to self.endpoint (max_results is not passed on).
EndpointSearch(t, i, n) ==
    /\ owner[i] = "CustomRetriever"
    /\ ~available[i]
    /\ frame[t].pc = "idle"
    /\ ncalls' = ncalls + 1
    /\ frame' = [frame EXCEPT ![t] =
            [IdleFrame EXCEPT !.pc = "endpoint", !.entry = "CustomRetriever",
                              !.self = i, !.max_results = n]]
    /\ trace' = [trace EXCEPT ![t] = IdleTrace]
    /\ UNCHANGED <<now, last_request_time, owner, shimvars, last_req, proc_stamp>>

\* What response.json() may give: a list of records, or another JSON value.
JsonValues ==
    { [type |-> "list", value |-> <<>>],
      [type |-> "list", value |-> <<[href |-> "U", body |-> "T\n\nS"]>>],
      [type |-> "dict", value |-> <<>>] }

\* Lines 108-110: the endpoint answers with a 2xx status and a JSON body,
\* which is returned as it is.
EndpointRespond(t, json) ==
    /\ frame[t].pc = "endpoint"
    /\ frame' = [frame EXCEPT ![t].pc = "done", ![t].ret = json.value,
                              ![t].rtype = json.type]
    /\ UNCHANGED <<now, last_request_time, owner, shimvars, ncalls, trace, last_req, proc_stamp>>

\* Lines 111-113: requests.get or raise_for_status raised a
\* requests.RequestException: the shim prints it and returns None.
EndpointFail(t) ==
    /\ frame[t].pc = "endpoint"
    /\ frame' = [frame EXCEPT ![t].pc = "done", ![t].ret = <<>>,
                              ![t].rtype = "NoneType"]
    /\ UNCHANGED <<now, last_request_time, owner, shimvars, ncalls, trace, last_req, proc_stamp>>

\* Lines 108-111: an exception that is no requests.RequestException (the
\* ValueError of response.json() on a body that is not JSON, with requests
\* before 2.27) passes line 111 and leaves CustomRetriever.search.
EndpointOtherError(t) ==
    /\ frame[t].pc = "endpoint"
    /\ frame' = [frame EXCEPT ![t].pc = "shim_raised"]
    /\ UNCHANGED <<now, last_request_time, owner, shimvars, ncalls, trace, last_req, proc_stamp>>

\* The caller takes the returned list and is free for another call.
Finish(t) ==
    /\ frame[t].pc = "done"
    /\ frame' = [frame EXCEPT ![t] = IdleFrame]
    /\ trace' = [trace EXCEPT ![t] = IdleTrace]
    /\ UNCHANGED <<now, last_request_time, owner, shimvars, ncalls, last_req, proc_stamp>>

\* ---------------------------------------------------------- specifications
Begin(t, n) ==
    \E i \in Inst :
        \/ CallSearch(t, i, n)
        \/ search_web(t, i, n)
        \/ CustomSearch(t, i, n)

Step(t) ==
    \/ ReadClock(t) \/ Check(t) \/ Sleep(t) \/ Wake(t) \/ Stamp(t)
    \/ Invoke(t) \/ Fail(t) \/ Format(t) \/ Finish(t)

\* The script builds an object: FreeWebSearchRetriever(), or
\* CustomRetriever(query) where free_web_retriever can be imported.
Build ==
    \E i \in Inst :
        \/ (Construct(i, "FreeWebSearchRetriever") /\ UNCHANGED shimvars)
        \/ CustomRetriever(i, NoDomains, TRUE)

\* The script builds a CustomRetriever where free_web_retriever cannot be
\* imported: with RETRIEVER_ENDPOINT set, or without.
BuildEndpoint ==
    \E i \in Inst :
        \/ CustomRetriever(i, NoDomains, FALSE)
        \/ CustomRetrieverRaises(i, NoDomains)

\* The steps of CustomRetriever.search in endpoint mode.
EndpointStep(t) ==
    \/ \E i \in Inst : ncalls < MaxCalls /\ EndpointSearch(t, i, 1)
    \/ \E json \in JsonValues : EndpointRespond(t, json)
    \/ EndpointFail(t)
    \/ EndpointOtherError(t)

\* The pages of the runs that are about pacing: no result, or one.
FewPages == { <<>>, <<[link |-> TRUE, text |-> "A", href |-> "V", snip |-> " B "]>> }

\* A script (one caller) making MaxCalls calls one after the other, through
\* whichever objects, as the clock goes on.
Next ==
    \/ Tick
    \/ Build
    \/ (ncalls < MaxCalls /\ Begin(1, 1))
    \/ Step(1)
    \/ \E page \in FewPages : Respond(1, page)

Spec == Init /\ [][Next]_vars

\* A script making MaxCalls calls through shims of either mode (and the
\* other entry points) while the surroundings change; the clock moves only
\* when a caller sleeps.
ShimNext ==
    \/ \E e \in Environments : SetEnviron(e)
    \/ Build
    \/ BuildEndpoint
    \/ (ncalls < MaxCalls /\ Begin(1, 1))
    \/ Step(1)
    \/ \E page \in FewPages : Respond(1, page)
    \/ EndpointStep(1)

ShimSpec == Init /\ [][ShimNext]_vars

\* The first call of a process, the engines answering with any page and
\* max_results being any of -1, 1 .. MaxN.  A first call never sleeps
\* (last_request_time = 0 lies more than min_delay before Epoch) and nothing
\* it does with the pages reads the clock, which stands still here.  The
\* script has built at most one object before the call.
PagesNext ==
    \/ (owner[1] = "" /\ Build)
    \/ (ncalls = 0 /\ \E n \in { 0 - 1 } \cup 1..MaxN : Begin(1, n))
    \/ ReadClock(1) \/ Check(1) \/ Stamp(1)
    \/ Invoke(1) \/ Fail(1) \/ Format(1) \/ Finish(1)
    \/ \E page \in Pages : Respond(1, page)

PagesSpec == Init /\ [][PagesNext]_vars

\* The first call of a process, the engines answering with any status and
\* one of the few pages, or not at all.
StatusNext ==
    \/ Build
    \/ (ncalls = 0 /\ Begin(1, 1))
    \/ ReadClock(1) \/ Check(1) \/ Stamp(1)
    \/ Invoke(1) \/ Fail(1) \/ Format(1) \/ Finish(1)
    \/ \E status \in Statuses, page \in FewPages : Answer(1, status, page)

StatusSpec == Init /\ [][StatusNext]_vars

\* Two searches side by side: callers 1 and 2 each make the first search
\* of a CustomRetriever of their own (shim 1, shim 2), built with whichever
\* query_domains.  First searches do not sleep, and the clock stands still.
DomainsNext ==
    \/ \E i \in { 1, 2 }, domains \in { NoDomains, SomeDomains } :
           CustomRetriever(i, domains, TRUE)
    \/ \E t \in { 1, 2 } :
         \/ (last_request_time[t] = 0 /\ \E n \in 1..MaxN : CustomSearch(t, t, n))
         \/ ReadClock(t) \/ Check(t) \/ Stamp(t)
         \/ Invoke(t) \/ Fail(t) \/ Format(t) \/ Finish(t)
         \/ \E page \in FewPages : Respond(t, page)

DomainsSpec == Init /\ [][DomainsNext]_vars

\* Callers in several threads: their steps interleave.  The engines fail
\* or answer with the one-result page, within ThreadTicks ticks.
ThreadsNext ==
    \/ (now < Epoch + ThreadTicks /\ Tick)
    \/ Build
    \/ \E t \in Threads :
         \/ (ncalls < MaxCalls /\ Begin(t, 1))
         \/ Step(t)
         \/ \E page \in FewPages \ { <<>> } : Respond(t, page)

ThreadsSpec == Init /\ [][ThreadsNext]_vars

\* ------------------------------------------- CustomFreeRetriever (async)
\* CustomFreeRetriever.__init__ (lines 19-21) builds its own
\* FreeWebSearchRetriever.
CustomFreeRetriever(i) ==
    /\ Construct(i, "CustomFreeRetriever")
    /\ UNCHANGED shimvars

\* The places of "async def search" (lines 23-45) at which the coroutine
\* awaits and the event loop may run another task: there is no await in
\* it, so none (and a faulty variant in which the HTTP request is awaited).
SuspendsAtRequest(pc) == pc = "inflight"
Suspends(pc) == FALSE

\* The event loop runs task t: every other task has not started, has
\* finished, or is suspended at an await.
LoopRuns(t) ==
    \A u \in Threads \ { t } :
        frame[u].pc \in { "idle", "done" } \/ Suspends(frame[u].pc)

\* Line 29: the coroutine starts and calls self.retriever.search(query,
\* max_results), a plain blocking call.
FreeSearch(t, i, n) ==
    /\ owner[i] = "CustomFreeRetriever"
    /\ LoopRuns(t)
    /\ Enter(t, i, "CustomFreeRetriever", n)
    /\ UNCHANGED <<last_request_time, owner, shimvars>>

\* Lines 34-38: one record for every result, whatever its fields hold.
FreeEntry(result) ==
    [title |-> result.title, href |-> result.url, body |-> result.snippet]

\* Lines 32-41: the loop over the results, and the return.  (The handler
\* of lines 43-45 catches what line 29 raises; search() raises nothing.)
FreeFormat(t) ==
    /\ frame[t].pc = "free_format"
    /\ LoopRuns(t)
    /\ frame' = [frame EXCEPT ![t].pc = "done",
            ![t].ret = [j \in 1..Len(frame[t].returned) |-> FreeEntry(frame[t].returned[j])]]
    /\ UNCHANGED <<now, last_request_time, owner, shimvars, ncalls, trace, last_req, proc_stamp>>

\* The steps of a task inside the coroutine, taken while the loop runs it.
FreeStep(t) ==
    /\ LoopRuns(t)
    /\ \/ ReadClock(t) \/ Check(t) \/ Sleep(t) \/ Wake(t) \/ Stamp(t)
       \/ Invoke(t) \/ Fail(t) \/ FreeFormat(t)
       \/ \E page \in FewPages : Respond(t, page)

\* Tasks on one event loop (asyncio.gather of one search coroutine for each
\* task) sharing one CustomFreeRetriever; the clock moves only when a task
\* sleeps.
AsyncNext ==
    \/ (owner[1] = "" /\ \E i \in Inst : CustomFreeRetriever(i))
    \/ \E t \in Threads :
         \/ \E i \in Inst : FreeSearch(t, i, 1)
         \/ FreeStep(t)

AsyncSpec == Init /\ [][AsyncNext]_vars

\* The first call of a process, through a CustomFreeRetriever, the engines
\* answering with any page and max_results being any of -1, 1 .. MaxN.
FreePagesNext ==
    \/ (owner[1] = "" /\ \E i \in Inst : CustomFreeRetriever(i))
    \/ (ncalls = 0 /\ \E i \in Inst, n \in { 0 - 1 } \cup 1..MaxN : FreeSearch(1, i, n))
    \/ ReadClock(1) \/ Check(1) \/ Stamp(1)
    \/ Invoke(1) \/ Fail(1) \/ FreeFormat(1) \/ Finish(1)
    \/ \E page \in Pages : Respond(1, page)

FreePagesSpec == Init /\ [][FreePagesNext]_vars

\* A script making MaxCalls calls one after the other; the clock moves only
\* when the caller sleeps.  The caller's own steps are taken when they can
\* be (the thread runs), time.sleep returns, and every HTTP request
\* eventually completes or fails (requests.get has timeout=15, lines 72,
\* 99, 127).
Runs(t) ==
    \/ ReadClock(t) \/ Check(t) \/ Sleep(t) \/ Stamp(t)
    \/ Invoke(t) \/ Format(t)

LiveNext ==
    \/ Build
    \/ (ncalls < MaxCalls /\ Begin(1, 1))
    \/ Step(1)
    \/ \E page \in FewPages : Respond(1, page)

LiveSpec ==
    /\ Init /\ [][LiveNext]_vars
    /\ WF_vars(Runs(1))
    /\ WF_vars(Wake(1))
    /\ WF_vars(Fail(1) \/ \E page \in FewPages : Respond(1, page))

\* --------------------------------------------------- FreeSearchResearcher
\* FreeSearchResearcher.__init__ (lines 24-27): its own retriever, and the
\* two counters at 0.
FreeSearchResearcher(i) ==
    /\ Construct(i, "FreeSearchResearcher")
    /\ search_count' = [search_count EXCEPT ![i] = 0]
    /\ total_sources' = [total_sources EXCEPT ![i] = 0]
    /\ UNCHANGED <<query_domains, available, environ>>

\* Line 47: max_results=10.
ResearchMaxResults == 10

\* conduct_research(query) on researcher i: line 47 calls
\* self.retriever.search(query, max_results=10).  (The prints are taken to
\* succeed.)
conduct_research(t, i) ==
    /\ owner[i] = "FreeSearchResearcher"
    /\ Enter(t, i, "conduct_research", ResearchMaxResults)
    /\ UNCHANGED <<last_request_time, owner, shimvars>>

\* Line 56: result.get('title') and result.get('url') and result.get('snippet').
IsSource(result) == result.title # "" /\ result.url # "" /\ result.snippet # ""

\* Lines 53-63: source_urls, the url of each result that passes line 56.
RECURSIVE SourceUrls(_)
SourceUrls(search_results) ==
    IF search_results = <<>> THEN <<>>
    ELSE IF IsSource(Head(search_results))
         THEN <<Head(search_results).url>> \o SourceUrls(Tail(search_results))
         ELSE SourceUrls(Tail(search_results))

\* Line 50: if search_results (and a faulty variant that asks whether any
\* source was kept).
HasResultsUsable(search_results) == SourceUrls(search_results) # <<>>
HasResults(search_results) == search_results # <<>>

\* The dictionary returned at lines 74-84, or at lines 88-99 (error: ""
\* stands for no 'error' key).
ResearchReport(search_results) ==
    IF HasResults(search_results)
    THEN [success |-> TRUE, sources |-> SourceUrls(search_results),
          source_count |-> Len(SourceUrls(search_results)), error |-> ""]
    ELSE [success |-> FALSE, sources |-> <<>>, source_count |-> 0,
          error |-> "No search results found"]

\* Lines 48-99: the search is counted, the sources are collected and
\* counted and the report is returned.  (The handler of lines 101-114
\* catches what line 47 raises; search() raises nothing.)
Report(t) ==
    /\ frame[t].pc = "report"
    /\ LET i == frame[t].self
           report == ResearchReport(frame[t].returned)
       IN  /\ search_count' = [search_count EXCEPT ![i] = @ + 1]
           /\ total_sources' = [total_sources EXCEPT ![i] = @ + Len(report.sources)]
           /\ frame' = [frame EXCEPT ![t].pc = "done", ![t].ret = report,
                                     ![t].rtype = "dict"]
    /\ UNCHANGED <<now, last_request_time, owner, ncalls, trace, last_req, proc_stamp,
                   query_domains, available, environ>>

\* The first research of a process, the engines answering with any page.
ResearchNext ==
    \/ (owner[1] = "" /\ \E i \in Inst : FreeSearchResearcher(i))
    \/ (ncalls = 0 /\ \E i \in Inst : conduct_research(1, i))
    \/ ReadClock(1) \/ Check(1) \/ Stamp(1)
    \/ Invoke(1) \/ Fail(1) \/ Report(1) \/ Finish(1)
    \/ \E page \in Pages : Respond(1, page)

ResearchSpec == Init /\ [][ResearchNext]_vars

\* ------------------------------------------------------------------ claims
\* The caller is past the return of FreeWebSearchRetriever.search.
HasReturned(t) == frame[t].pc \in { "format", "done" }

\* An adapter attempt that gave the orchestrator nothing: it raised, or it
\* returned the empty list.
GaveNothing(a) == a.raised \/ a.list = <<>>

PriorityOrder == <<"_search_duckduckgo", "_search_bing", "_search_startpage">>

\* C1: once an adapter has returned a non-empty list, search has returned
\* exactly that list, that attempt is the last one of the call and no
\* lower-priority adapter has been invoked.
C1_FirstSuccessWins ==
    \A t \in Threads :
        \A j \in 1..Len(trace[t].attempts) :
            ~GaveNothing(trace[t].attempts[j]) =>
                /\ HasReturned(t)
                /\ frame[t].returned = trace[t].attempts[j].list
                /\ (frame[t].entry # "CustomRetriever" =>
                        frame[t].ret = trace[t].attempts[j].list)
                /\ Len(trace[t].attempts) = j
                /\ Len(trace[t].invoked) = j

\* C1 witness: the second adapter succeeded after the first gave nothing,
\* and its list is what search returned.
C1_Witness ==
    \E t \in Threads :
        /\ frame[t].pc = "done"
        /\ frame[t].entry = "search"
        /\ Len(trace[t].attempts) = 2
        /\ GaveNothing(trace[t].attempts[1])
        /\ trace[t].attempts[2].list # <<>>
        /\ frame[t].ret = trace[t].attempts[2].list

\* C2: search never raises, and once all three adapters have raised or
\* returned the empty list it has returned the empty list.
C2_TotalFailureIsEmptyList ==
    \A t \in Threads :
        (\A j \in 1..Len(trace[t].attempts) : GaveNothing(trace[t].attempts[j])) =>
            /\ frame[t].pc # "raised"
            /\ (Len(trace[t].attempts) = Len(PriorityOrder) =>
                    /\ HasReturned(t)
                    /\ frame[t].returned = <<>>
                    /\ (frame[t].pc = "done" => frame[t].ret = <<>>))

\* C2 witness: a mix of the two outcomes (raised, empty, raised) ended in the
\* empty list.
C2_Witness ==
    \E t \in Threads :
        /\ frame[t].pc = "done"
        /\ frame[t].entry = "search"
        /\ Len(trace[t].attempts) = 3
        /\ trace[t].attempts[1].raised
        /\ ~trace[t].attempts[2].raised /\ trace[t].attempts[2].list = <<>>
        /\ trace[t].attempts[3].raised
        /\ frame[t].ret = <<>>

\* C3: the adapters invoked in a call are a prefix of DuckDuckGo, Bing,
\* StartPage; an adapter is invoked only after all before it have finished
\* giving nothing, and at most one is unfinished, the one in flight.
C3_SequentialPriorityOrder ==
    \A t \in Threads :
        LET inv == trace[t].invoked
            att == trace[t].attempts
        IN  /\ Len(inv) <= Len(PriorityOrder)
            /\ inv = SubSeq(PriorityOrder, 1, Len(inv))
            /\ Len(att) <= Len(inv)
            /\ Len(inv) <= Len(att) + 1
            /\ (Len(inv) = Len(att) + 1) <=> (frame[t].pc = "inflight")
            /\ \A j \in 1..(Len(inv) - 1) : j <= Len(att) /\ GaveNothing(att[j])

\* C3 witness: the third adapter is in flight after the first two finished.
C3_Witness ==
    \E t \in Threads :
        /\ frame[t].pc = "inflight"
        /\ trace[t].invoked = PriorityOrder
        /\ Len(trace[t].attempts) = 2

\* C4: for a positive max_results N, every list an adapter returned and the
\* list search returned hold at most N results.
C4_AtMostMaxResults ==
    \A t \in Threads :
        frame[t].max_results > 0 =>
            /\ \A j \in 1..Len(trace[t].attempts) :
                   Len(trace[t].attempts[j].list) <= frame[t].max_results
            /\ Len(frame[t].results) <= frame[t].max_results
            /\ Len(frame[t].returned) <= frame[t].max_results
            /\ Len(frame[t].ret) <= frame[t].max_results

\* C4 witness: a page of two result nodes, max_results = 1, one result
\* returned.
C4_Witness ==
    \E t \in Threads :
        /\ frame[t].pc = "done"
        /\ frame[t].max_results = 1
        /\ trace[t].nodes = 2
        /\ Len(frame[t].ret) = 1

\* A raw result whose title, url and snippet are all non-empty.
AllNonEmpty(r) == r.title # "" /\ r.url # "" /\ r.snippet # ""

\* CustomRetriever.search has returned to its caller.
ShimDone(t) == frame[t].entry = "CustomRetriever" /\ frame[t].pc = "done"

RECURSIVE Usable(_)
Usable(rs) ==
    IF rs = <<>> THEN <<>>
    ELSE IF AllNonEmpty(Head(rs)) THEN <<Head(rs)>> \o Usable(Tail(rs))
         ELSE Usable(Tail(rs))

\* C10: the shim's output has one record for each raw result whose three
\* fields are non-empty and none for a raw result with an empty field, and
\* the shim has not raised.
C10_EmptyFieldDropped ==
    \A t \in Threads :
        /\ frame[t].entry = "CustomRetriever" => frame[t].pc # "raised"
        /\ ShimDone(t) =>
               /\ Len(frame[t].ret) = Len(Usable(frame[t].returned))
               /\ \A m \in 1..Len(frame[t].ret) :
                      \E j \in 1..Len(frame[t].returned) :
                          LET r == frame[t].returned[j]
                          IN  /\ AllNonEmpty(r)
                              /\ frame[t].ret[m].href = r.url
                              /\ frame[t].ret[m].body = r.title \o "\n\n" \o r.snippet

\* C10 witness: of two raw results the one with an empty snippet was
\* dropped and the other kept.
C10_Witness ==
    \E t \in Threads :
        /\ ShimDone(t)
        /\ Len(frame[t].returned) = 2
        /\ frame[t].returned[1].snippet = ""
        /\ AllNonEmpty(frame[t].returned[2])
        /\ Len(frame[t].ret) = 1
        /\ frame[t].ret[1].href = frame[t].returned[2].url

\* C5: calls made one after the other on one object: when the object holds
\* an earlier call's timestamp, the call reaches line 47 only MIN_DELAY or
\* more after it, so the timestamp it records and the request it then
\* issues are at least MIN_DELAY after the earlier timestamp.
C5_SpacedAfterEarlierStamp ==
    \A t \in Threads :
        trace[t].prev # None =>
            /\ frame[t].pc = "stamp" => now >= trace[t].prev + min_delay
            /\ trace[t].stamp # None =>
                   /\ trace[t].stamp >= trace[t].prev + min_delay
                   /\ last_request_time[frame[t].self] = trace[t].stamp
            /\ Len(trace[t].invoked) >= 1 =>
                   /\ trace[t].stamp # None
                   /\ last_req[frame[t].self] >= trace[t].stamp

\* C5 witness: a call that began less than MIN_DELAY after the earlier
\* timestamp slept and has its first request in flight.
C5_Witness ==
    \E t \in Threads :
        /\ trace[t].prev # None
        /\ frame[t].current_time - trace[t].prev < min_delay
        /\ frame[t].wake >= trace[t].prev + min_delay
        /\ frame[t].pc = "inflight"
        /\ frame[t].k = 1

\* C6: whichever objects two calls made one after the other go through,
\* the later one issues its first request MIN_DELAY or more after the
\* timestamp the earlier one recorded.
C6_ProcessWideSpacing ==
    \A t \in Threads :
        (frame[t].pc = "inflight" /\ frame[t].k = 1 /\ trace[t].earlier # None) =>
            last_req[frame[t].self] >= trace[t].earlier + min_delay

\* C7: a request is issued through an object MIN_DELAY or more after the
\* request issued through it before.
C7_RequestsSpaced ==
    [][\A t \in Threads :
          (/\ frame[t].pc = "invoke"
           /\ frame'[t].pc = "inflight"
           /\ last_req[frame[t].self] # None) =>
              now >= last_req[frame[t].self] + min_delay]_vars

\* C8: two callers inside search() on one object have recorded timestamps
\* MIN_DELAY or more apart.
C8_StampsSerialized ==
    \A t, u \in Threads :
        (/\ t # u
         /\ frame[t].self = frame[u].self
         /\ trace[t].stamp # None
         /\ trace[u].stamp # None) =>
            \/ trace[t].stamp >= trace[u].stamp + min_delay
            \/ trace[u].stamp >= trace[t].stamp + min_delay

\* C11: CustomRetriever.search, in whichever mode the shim was built, lets
\* no exception out and returns a list.
C11_ShimAlwaysReturnsList ==
    \A t \in Threads :
        frame[t].entry = "CustomRetriever" =>
            /\ frame[t].pc \notin { "raised", "shim_raised" }
            /\ (frame[t].pc = "done" => frame[t].rtype = "list")

ConnectionFailed(a) == a.raised /\ a.status = NoStatus

\* C13: a CustomRetriever.search in free-search mode in which every engine
\* tried raised ConnectionError lets no exception out, and once it has
\* returned it has tried all three engines, each once, and returned the
\* empty list.
C13_AllConnectionErrorsGiveEmpty ==
    \A t \in Threads :
        (/\ frame[t].entry = "CustomRetriever"
         /\ available[frame[t].self]
         /\ \A j \in 1..Len(trace[t].attempts) : ConnectionFailed(trace[t].attempts[j])) =>
            /\ frame[t].pc \notin { "raised", "shim_raised" }
            /\ (Len(trace[t].attempts) = Len(PriorityOrder) => HasReturned(t))
            /\ (HasReturned(t) =>
                    /\ Len(trace[t].attempts) = Len(PriorityOrder)
                    /\ trace[t].invoked = PriorityOrder
                    /\ frame[t].returned = <<>>)
            /\ (frame[t].pc = "done" =>
                    frame[t].ret = <<>> /\ frame[t].rtype = "list")

\* C13 witness: the shim returned after three attempts that all raised
\* ConnectionError.
C13_Witness ==
    \E t \in Threads :
        /\ ShimDone(t)
        /\ Len(trace[t].attempts) = 3
        /\ \A j \in 1..3 : ConnectionFailed(trace[t].attempts[j])
        /\ frame[t].ret = <<>>

\* C14: in a call of search(), last_request_time is written once, at line
\* 47 before the first adapter is invoked: from the first invocation to the
\* return the object holds the timestamp recorded then, however many
\* adapters are tried and however long they take, and no step of an adapter
\* (its invocation, its failure, its answer) changes last_request_time.
C14_LimiterRunsOncePerCall ==
    /\ [](\A t \in Threads :
            frame[t].k >= 1 =>
                /\ trace[t].stamp # None
                /\ last_request_time[frame[t].self] = trace[t].stamp)
    /\ [][\A t \in Threads :
            (frame[t].pc \in { "invoke", "inflight" } /\ frame'[t] # frame[t]) =>
                last_request_time' = last_request_time]_vars

\* C14 witness: the third adapter is in flight, later than the timestamp
\* the call recorded, which the object still holds.
C14_Witness ==
    \E t \in Threads :
        /\ frame[t].pc = "inflight"
        /\ frame[t].k = 3
        /\ Len(trace[t].attempts) = 2
        /\ now > trace[t].stamp
        /\ last_req[frame[t].self] > trace[t].stamp
        /\ last_request_time[frame[t].self] = trace[t].stamp

\* C15: whichever of the three adapters it is, and whether it raised or
\* returned the empty list, the step that ends an attempt with nothing makes
\* the orchestrator ready to invoke the next adapter, or, after the third,
\* return the empty list; the search neither ends early nor raises.
C15_UniformFallbackSignal ==
    [][\A t \in Threads :
          (/\ Len(trace'[t].attempts) = Len(trace[t].attempts) + 1
           /\ GaveNothing(trace'[t].attempts[Len(trace'[t].attempts)])) =>
              IF frame[t].k < Len(PriorityOrder)
              THEN /\ frame'[t].pc = "invoke"
                   /\ frame'[t].k = frame[t].k + 1
              ELSE /\ HasReturned(t)'
                   /\ frame'[t].returned = <<>>]_vars

\* C15 witness: the first adapter raised, the second returned the empty
\* list for a page with no result node, and the third is being tried.
C15_Witness ==
    \E t \in Threads :
        /\ Len(trace[t].attempts) = 2
        /\ trace[t].attempts[1].raised
        /\ ~trace[t].attempts[2].raised
        /\ trace[t].attempts[2].list = <<>>
        /\ trace[t].nodes = 0
        /\ frame[t].pc = "inflight"
        /\ frame[t].k = 3

\* The caller's last attempt was answered and parsed, for a positive
\* max_results: trace[t].page is the page it parsed.
LastParsed(t) ==
    /\ frame[t].max_results > 0
    /\ Len(trace[t].attempts) >= 1
    /\ ~trace[t].attempts[Len(trace[t].attempts)].raised

\* The result nodes the adapter selected from that page: the first
\* max_results in document order.
Selected(t) == SubSeq(trace[t].page, 1, Min(frame[t].max_results, Len(trace[t].page)))

\* The field a raw result has for a sub-element: the empty string when the
\* sub-element is missing.
FieldOf(missing, text) == IF missing THEN "" ELSE text

\* C16 as claimed: the adapter's list has one raw result for each node it
\* selected, a missing title link, href attribute or snippet element giving
\* the empty string for its field.
C16_MissingGivesEmptyNeverLeftOut ==
    \A t \in Threads :
        LastParsed(t) =>
            LET list == trace[t].attempts[Len(trace[t].attempts)].list
                sel  == Selected(t)
            IN  /\ Len(list) = Len(sel)
                /\ \A j \in 1..Len(sel) :
                       /\ list[j].title = FieldOf(~sel[j].link, Strip(sel[j].text))
                       /\ list[j].url = FieldOf(sel[j].href = NoAttr, sel[j].href)
                       /\ list[j].snippet = FieldOf(sel[j].snip = NoElem, Strip(sel[j].snip))

HasTitleLink(node) == node.link

\* C16 amended: the adapter's list has one raw result for each selected
\* node that has a title link, in order, a missing href attribute or snippet
\* element giving the empty string for its field; a selected node without
\* a title link is left out; the attempt has not raised.
C16_MissingAttrGivesEmptyNoLinkSkipped ==
    \A t \in Threads :
        LastParsed(t) =>
            LET list == trace[t].attempts[Len(trace[t].attempts)].list
                kept == SelectSeq(Selected(t), HasTitleLink)
            IN  /\ frame[t].pc # "raised"
                /\ Len(list) = Len(kept)
                /\ \A j \in 1..Len(kept) :
                       /\ list[j].title = Strip(kept[j].text)
                       /\ list[j].url = FieldOf(kept[j].href = NoAttr, kept[j].href)
                       /\ list[j].snippet = FieldOf(kept[j].snip = NoElem, Strip(kept[j].snip))

\* C16 witness: of two selected nodes, one without href attribute and one
\* without snippet element, both are in the list with the empty string.
C16_Witness ==
    \E t \in Threads :
        /\ LastParsed(t)
        /\ Len(Selected(t)) = 2
        /\ Selected(t)[1].href = NoAttr
        /\ Selected(t)[2].snip = NoElem
        /\ trace[t].attempts[Len(trace[t].attempts)].list =
               <<[title |-> "T", url |-> "", snippet |-> "S"],
                 [title |-> "T", url |-> "U", snippet |-> ""]>>

\* What the orchestrator has done after the j-th attempt of a call raised:
\* it caught the exception (search has not raised) and went on to the next
\* engine, or after the last engine returned the empty list.
CaughtAndWentOn(t, j) ==
    /\ frame[t].pc # "raised"
    /\ IF j < Len(PriorityOrder)
       THEN \/ Len(trace[t].invoked) > j
            \/ (frame[t].pc = "invoke" /\ frame[t].k = j + 1)
       ELSE HasReturned(t) /\ frame[t].returned = <<>>

\* C17 as claimed: an attempt whose response had a status outside 200..299
\* raised and returned no list, and the orchestrator caught the exception
\* and went on.
C17_Non2xxRaises ==
    \A t \in Threads :
        \A j \in 1..Len(trace[t].attempts) :
            LET a == trace[t].attempts[j]
            IN  (a.status # NoStatus /\ ~(200 <= a.status /\ a.status <= 299)) =>
                    /\ a.raised
                    /\ a.list = <<>>
                    /\ CaughtAndWentOn(t, j)

\* C17 amended: an attempt whose response had a status from 400 to 599
\* raised and returned no list, and the orchestrator caught the exception
\* and went on.
C17_ErrorStatusRaises ==
    \A t \in Threads :
        \A j \in 1..Len(trace[t].attempts) :
            LET a == trace[t].attempts[j]
            IN  (400 <= a.status /\ a.status <= 599) =>
                    /\ a.raised
                    /\ a.list = <<>>
                    /\ CaughtAndWentOn(t, j)

\* C17 witness: DuckDuckGo answered 404, Bing answered 503, and StartPage
\* is being tried.
C17_Witness ==
    \E t \in Threads :
        /\ Len(trace[t].attempts) = 2
        /\ trace[t].attempts[1].status = 404
        /\ trace[t].attempts[1].raised
        /\ trace[t].attempts[2].status = 503
        /\ trace[t].attempts[2].raised
        /\ frame[t].pc = "inflight"
        /\ trace[t].invoked = PriorityOrder

\* The caller is in, or past, a call of FreeWebSearchRetriever.search (and
\* not in the endpoint branch of the shim).
InSearch(t) ==
    /\ frame[t].pc \notin { "idle", "endpoint", "shim_raised" }
    /\ (frame[t].entry = "CustomRetriever" => available[frame[t].self])

\* C18: within one call of search() no adapter is invoked twice, at most
\* three invocations are made, each with one request and at most one
\* outcome, and a call that has returned made at least one.
C18_NoRetryWithinCall ==
    \A t \in Threads :
        InSearch(t) =>
            LET inv == trace[t].invoked
            IN  /\ \A a, b \in 1..Len(inv) : a # b => inv[a] # inv[b]
                /\ Len(inv) <= 3
                /\ Len(trace[t].attempts) <= Len(inv)
                /\ (HasReturned(t) => Len(inv) >= 1 /\ Len(trace[t].attempts) = Len(inv))

\* C18 witness: the second call of a run returned after three invocations,
\* one of each adapter.
C18_Witness ==
    \E t \in Threads :
        /\ ncalls = 2
        /\ InSearch(t)
        /\ frame[t].pc = "done"
        /\ Len(trace[t].invoked) = 3
        /\ { trace[t].invoked[a] : a \in 1..3 } =
               { "_search_duckduckgo", "_search_bing", "_search_startpage" }

\* What a call's attempts determine: the list of the last attempt when it
\* is non-empty, the empty list otherwise.
ResultOf(attempts) ==
    IF attempts # <<>> /\ ~GaveNothing(attempts[Len(attempts)])
    THEN attempts[Len(attempts)].list
    ELSE <<>>

\* C19: every call of search(), also a later call on an object searched
\* before, has issued a request to engine A (DuckDuckGo) after the
\* timestamp it recorded before it returns, and the list it returns is the
\* one its own attempts determine.
C19_EveryCallFetches ==
    \A t \in Threads :
        (InSearch(t) /\ HasReturned(t)) =>
            /\ Len(trace[t].invoked) >= 1
            /\ trace[t].invoked[1] = "_search_duckduckgo"
            /\ Len(trace[t].attempts) = Len(trace[t].invoked)
            /\ trace[t].stamp # None
            /\ last_req[frame[t].self] >= trace[t].stamp
            /\ frame[t].returned = ResultOf(trace[t].attempts)

\* C19 witness: a call on an object that an earlier call had searched
\* returned after three requests of its own that gave nothing.
C19_Witness ==
    \E t \in Threads :
        /\ ncalls = 2
        /\ trace[t].prev # None
        /\ frame[t].entry = "search"
        /\ frame[t].pc = "done"
        /\ Len(trace[t].attempts) = 3
        /\ last_req[frame[t].self] >= trace[t].prev + min_delay
        /\ frame[t].ret = <<>>

\* C20: two searches through shims built with different query_domains,
\* with the same max_results and the same outcomes of the engines, have
\* invoked the same adapters and returned the same list.
C20_DomainsHaveNoEffect ==
    \A t, u \in Threads :
        (/\ ShimDone(t) /\ ShimDone(u)
         /\ query_domains[frame[t].self] # query_domains[frame[u].self]
         /\ frame[t].max_results = frame[u].max_results
         /\ trace[t].attempts = trace[u].attempts
         /\ trace[t].page = trace[u].page) =>
            /\ trace[t].invoked = trace[u].invoked
            /\ frame[t].returned = frame[u].returned
            /\ frame[t].ret = frame[u].ret
            /\ frame[t].rtype = frame[u].rtype

\* C20 witness: a shim built without domains and one built with domains
\* both returned the record of the result Bing gave them after DuckDuckGo
\* had failed.
C20_Witness ==
    \E t, u \in Threads :
        /\ ShimDone(t) /\ ShimDone(u)
        /\ query_domains[frame[t].self] = NoDomains
        /\ query_domains[frame[u].self] = SomeDomains
        /\ trace[t].attempts = trace[u].attempts
        /\ Len(trace[t].attempts) = 2
        /\ frame[t].ret = <<[href |-> "V", body |-> "A\n\nB"]>>
        /\ frame[u].ret = frame[t].ret

InCoroutine(t) ==
    /\ frame[t].entry = "CustomFreeRetriever"
    /\ frame[t].pc \notin { "idle", "done" }

\* C22: CustomFreeRetriever.search has no suspension point: two calls
\* scheduled on one event loop never interleave; while one task is inside
\* the coroutine no other is, and a task reaches its rate-limiter check
\* (lines 43-44) only when every call begun before has returned.
C22_CoroutinesNeverInterleave ==
    \A t \in Threads : \A u \in Threads \ { t } :
        /\ ~(InCoroutine(t) /\ InCoroutine(u))
        /\ (InCoroutine(t) /\ frame[t].pc \in { "read_clock", "check" }) =>
               frame[u].pc \in { "idle", "done" }

\* The second call, on the same object, is at its rate-limiter check and
\* the first has returned.
C22_Witness ==
    \E t \in Threads : \E u \in Threads \ { t } :
        /\ InCoroutine(t) /\ frame[t].pc = "check"
        /\ frame[u].pc = "done" /\ frame[u].entry = "CustomFreeRetriever"
        /\ frame[u].self = frame[t].self
        /\ ncalls = 2

\* CustomFreeRetriever.search has returned to the task.
FreeDone(t) == frame[t].entry = "CustomFreeRetriever" /\ frame[t].pc = "done"

\* C23: every record that CustomFreeRetriever.search returns has a
\* non-empty title, a non-empty href and a non-empty body.
C23_FreeRecordsAllNonEmpty ==
    \A t \in Threads :
        FreeDone(t) =>
            \A j \in 1..Len(frame[t].ret) :
                /\ frame[t].ret[j].title # ""
                /\ frame[t].ret[j].href # ""
                /\ frame[t].ret[j].body # ""

\* a is b with some members left out: the same members, in the same order,
\* none twice, none new.
RECURSIVE IsSubsequence(_, _)
IsSubsequence(a, b) ==
    IF a = <<>> THEN TRUE
    ELSE IF b = <<>> THEN FALSE
    ELSE IF Head(a) = Head(b) THEN IsSubsequence(Tail(a), Tail(b))
    ELSE IsSubsequence(a, Tail(b))

\* C24: result order is never changed: the list FreeWebSearchRetriever.search
\* returns holds results of the engine's page in document order, and the
\* list CustomRetriever.search returns is an order-preserving subsequence
\* of the records of that list (records dropped, none re-sorted, duplicated
\* or added).
C24_OrderNeverChanged ==
    \A t \in Threads :
        /\ HasReturned(t) =>
               IsSubsequence(frame[t].returned,
                   [j \in 1..Len(trace[t].page) |-> RawResult(trace[t].page[j])])
        /\ ShimDone(t) =>
               IsSubsequence(frame[t].ret,
                   [j \in 1..Len(frame[t].returned) |-> FormattedEntry(frame[t].returned[j])])

\* C24 witness: of two different results in document order the shim drops
\* the first (no snippet) and returns the record of the second.
C24_Witness ==
    \E t \in Threads :
        /\ ShimDone(t)
        /\ trace[t].page = <<[link |-> TRUE, text |-> "T", href |-> "U", snip |-> NoElem],
                             [link |-> TRUE, text |-> "A", href |-> "V", snip |-> " B "]>>
        /\ frame[t].returned = <<[title |-> "T", url |-> "U", snippet |-> ""],
                                 [title |-> "A", url |-> "V", snippet |-> "B"]>>
        /\ frame[t].ret = <<[href |-> "V", body |-> "A\n\nB"]>>

\* C25: every search() call terminates: once begun it returns, after at
\* most one rate-limiter sleep (a caller that starts to sleep has not slept
\* in this call) and at most three adapter attempts; it waits only in
\* time.sleep and in the HTTP requests.
C25_SearchTerminates ==
    /\ \A t \in Threads : (frame[t].pc = "read_clock") ~> HasReturned(t)
    /\ [][\A t \in Threads :
              (frame[t].pc = "sleep" /\ frame'[t].pc = "sleeping") => frame[t].wake = 0]_vars
    /\ [](\A t \in Threads :
              /\ Len(trace[t].attempts) <= 3
              /\ frame[t].pc \in { "idle", "read_clock", "check", "sleep", "sleeping",
                                    "stamp", "invoke", "inflight", "format", "done" })

\* C25 witness: a call has returned after sleeping and after three attempts.
C25_Witness ==
    \E t \in Threads :
        /\ frame[t].pc = "done"
        /\ frame[t].wake > 0
        /\ Len(trace[t].attempts) = 3

\* C26: each adapter truncates before it filters: for a positive
\* max_results its list is exactly the raw results of those of the first
\* max_results nodes of the page that have a title link, in order; a node
\* without a title link is not replaced by a later node, so the list can be
\* shorter than max_results although usable nodes follow.
C26_TruncatesBeforeFiltering ==
    \A t \in Threads :
        LastParsed(t) =>
            LET list == trace[t].attempts[Len(trace[t].attempts)].list
                first == Selected(t)
                linked == { j \in 1..Len(first) : first[j].link }
            IN  /\ Len(list) = Cardinality(linked)
                /\ \A j \in 1..Len(list) :
                       \E m \in linked :
                           /\ list[j] = RawResult(first[m])
                           /\ Cardinality({ l \in linked : l < m }) = j - 1

\* C26 witness: max_results = 1 and a page whose first node has no title
\* link and whose second is well formed: the adapter's list is empty.
C26_Witness ==
    \E t \in Threads :
        /\ LastParsed(t)
        /\ frame[t].max_results = 1
        /\ trace[t].page = <<[link |-> FALSE, text |-> "", href |-> NoAttr, snip |-> NoElem],
                             [link |-> TRUE, text |-> "A", href |-> "V", snip |-> " B "]>>
        /\ trace[t].attempts[Len(trace[t].attempts)].list = <<>>

\* The j-th attempt of the call returned a non-empty raw list.
GaveResults(t, j) == ~trace[t].attempts[j].raised /\ trace[t].attempts[j].list # <<>>

\* C27: CustomRetriever.search in free-search mode returns a non-empty list
\* exactly when the first adapter in priority order that returned a
\* non-empty raw list has a result with title, url and snippet all
\* non-empty; that adapter is the last one tried, so when each of its
\* results has an empty field the shim returns [] and no lower-priority
\* engine is tried.
C27_NonEmptyIffFirstRawListUsable ==
    \A t \in Threads :
        (ShimDone(t) /\ available[frame[t].self]) =>
            LET att == trace[t].attempts
                given == { j \in 1..Len(att) : GaveResults(t, j) }
            IN  /\ (frame[t].ret # <<>>) <=>
                       \E j \in given :
                           /\ \A i \in given : j <= i
                           /\ \E m \in 1..Len(att[j].list) : AllNonEmpty(att[j].list[m])
                /\ \A j \in given :
                       /\ j = Len(att)
                       /\ trace[t].invoked = SubSeq(PriorityOrder, 1, j)
                       /\ (\A m \in 1..Len(att[j].list) : ~AllNonEmpty(att[j].list[m])) =>
                              frame[t].ret = <<>>

\* C27 witness: DuckDuckGo returned nothing, Bing returned a raw list whose
\* every result has an empty field; the shim returned [] and StartPage was
\* not tried.
C27_Witness ==
    \E t \in Threads :
        /\ ShimDone(t) /\ available[frame[t].self]
        /\ Len(trace[t].attempts) = 2
        /\ trace[t].attempts[1].list = <<>> /\ ~trace[t].attempts[1].raised
        /\ Len(trace[t].attempts[2].list) = 2
        /\ \A m \in 1..2 : ~AllNonEmpty(trace[t].attempts[2].list[m])
        /\ frame[t].ret = <<>>
        /\ trace[t].invoked = <<"_search_duckduckgo", "_search_bing">>

\* C28: with a non-decreasing clock the rate limiter delays a search() call
\* by at most MIN_DELAY: a caller at line 45 passes time.sleep the amount
\* MIN_DELAY - (now - last_request_time), which is positive and at most
\* MIN_DELAY; and the comparison of line 44 on a fresh instance
\* (last_request_time = 0) never asks for a delay.
C28_DelayAtMostMinDelay ==
    \A t \in Threads :
        LET amount == SleepArg(frame[t].current_time, last_request_time[frame[t].self])
        IN  /\ frame[t].pc = "sleep" => (0 < amount /\ amount <= min_delay)
            /\ (frame[t].pc = "check" /\ last_request_time[frame[t].self] = 0) =>
                   ~NeedsDelay(frame[t].current_time, 0)

\* The backend a CustomRetriever.search in progress (or finished) went to:
\* the free search of lines 77-103, or the endpoint of lines 105-113.
UsesFreeSearch(t) ==
    \/ frame[t].pc \in { "read_clock", "check", "sleep", "sleeping", "stamp",
                          "invoke", "inflight", "format" }
    \/ (frame[t].pc = "done" /\ trace[t].stamp # None)

\* C29: CustomRetriever chooses its backend once, at construction:
\* available is True exactly when free_web_retriever can be imported then;
\* when it cannot, construction raises ValueError exactly when
\* RETRIEVER_ENDPOINT is unset; nothing after construction changes
\* available, and every search of a shim goes to the backend that
\* available names, whatever the surroundings have become.
C29_BackendChosenAtConstruction ==
    /\ [][\A i \in Inst :
              /\ (owner[i] = "" /\ owner'[i] \in { "CustomRetriever", "ValueError" }) =>
                     /\ available'[i] <=> environ.importable
                     /\ (owner'[i] = "ValueError") <=>
                            (~environ.importable /\ environ.endpoint = "")
              /\ owner[i] # "" => available'[i] = available[i]]_vars
    /\ [](\A t \in Threads :
              (frame[t].entry = "CustomRetriever" /\ frame[t].pc # "idle") =>
                  /\ owner[frame[t].self] = "CustomRetriever"
                  /\ UsesFreeSearch(t) <=> available[frame[t].self])

\* C29 witness: a shim built where the module could not be imported is
\* searching its endpoint although the module can be imported by now.
C29_Witness ==
    \E t \in Threads :
        /\ frame[t].entry = "CustomRetriever"
        /\ frame[t].pc = "endpoint"
        /\ ~available[frame[t].self]
        /\ environ.importable
        /\ \E i \in Inst : owner[i] = "ValueError"

\* conduct_research has returned to the script.
ResearchDone(t) == frame[t].entry = "conduct_research" /\ frame[t].pc = "done"

\* C30: conduct_research never raises and returns a report with success =
\* True exactly when the retriever returned a non-empty raw list;
\* source_count equals len(sources) and is the number of raw results with
\* title, url and snippet all non-empty; an empty raw list gives success =
\* False with error 'No search results found' and no sources.
C30_SuccessIffRawListNonEmpty ==
    \A t \in Threads :
        /\ frame[t].entry = "conduct_research" => frame[t].pc # "raised"
        /\ ResearchDone(t) =>
               LET raw == frame[t].returned
                   report == frame[t].ret
               IN  /\ frame[t].rtype = "dict"
                   /\ report.success <=> raw # <<>>
                   /\ report.source_count = Len(report.sources)
                   /\ report.source_count =
                          Cardinality({ j \in 1..Len(raw) : AllNonEmpty(raw[j]) })
                   /\ \A j \in 1..Len(report.sources) :
                          \E m \in 1..Len(raw) :
                              AllNonEmpty(raw[m]) /\ report.sources[j] = raw[m].url
                   /\ raw = <<>> =>
                          /\ report.error = "No search results found"
                          /\ report.sources = <<>>
                   /\ raw # <<>> => report.error = ""

\* C30 witness: the retriever returned two raw results, neither usable;
\* the report says success with no source.
C30_Witness ==
    \E t \in Threads :
        /\ ResearchDone(t)
        /\ Len(frame[t].returned) = 2
        /\ frame[t].ret.success
        /\ frame[t].ret.source_count = 0
        /\ frame[t].ret.sources = <<>>
        /\ search_count[frame[t].self] = 1
====
